---- MODULE Spec2Model ----
(***************************************************************************)
(* Model of the NHC storm tracker bot (src/bot.py, src/nhclib.py).         *)
(*                                                                         *)
(* The bot runs on one asyncio event loop.  A step of the model is what    *)
(* one coroutine does between two suspension points (an "await" that       *)
(* really suspends): a command handler of "!nhc", one cycle of             *)
(* nhcScanBasin, or one leg of a cyclone's nhcUpdateCyclone loop.  What    *)
(* the network returns (the basin feed, an advisory document, the result   *)
(* of a send, the clock) is an input of the step that reads it.            *)
(*                                                                         *)
(* The model covers the bot while it is open: bot.is_closed() is False.    *)
(*                                                                         *)
(* Spec is the bot from its start.  SchedulerSpec is nhcUpdateCyclone      *)
(* under either value of its parameter, ResolverSpec is one call of        *)
(* nhclib.datetimeFromAdvisory under the clock times, timezones and clocks *)
(* it may be given.                                                        *)
(***************************************************************************)
EXTENDS Integers, Sequences, FiniteSets, TLC

(***************************************************************************)
(* Bounds of the model.                                                    *)
(***************************************************************************)
\* entries of one basin feed document
MaxFeedLen == 2
\* entries the blacklist may hold before a further untrack is left out
MaxBlacklist == 2
\* Task objects of nhcUpdateCyclone that exist at a time (running, or ended
\* and still held by a tracked dict): a command that would create one more
\* is left out
MaxTasks == 1
\* cycles of the basin scan
MaxScans == 33

\* ATCF identifiers and storm names that occur in the feeds
Atcfs == {"al01", "al02"}
Names == {"ana", "bill"}
\* the <nhc:type> of a feed entry, lower case; the second is below the
\* strengths the bot tracks
Types == {"hurricane", "tropical depression"}

(***************************************************************************)
(* Program constants.                                                      *)
(***************************************************************************)
\* bot.py:26 and :59, ttl = 10
RetryBudget == 10
\* bot.py:37, nextUpdateSecs = 60
RetrySecs == 60
\* bot.py:82, blacklistPurge > 30
PurgeThreshold == 30
\* bot.py:18
CYCLONE_STRENGTHS == {"tropical storm", "hurricane"}

VARIABLES
    TrackedCyclones,      \* bot.py:16, list of cyclone dicts
    BlacklistedCyclones,  \* bot.py:17, the module-level list of ATCFs
    tasks,                \* the Task objects of nhcUpdateCyclone, by identity
    scanPc,               \* where the nhcScanBasin task is
    blacklistPurge,       \* bot.py:80, local of nhcScanBasin
    scanBlacklist,        \* the name BlacklistedCyclones inside nhcScanBasin:
                          \* bot.py:83 assigns it, so it is a local there
    lastLookup,           \* history: what the feed offered to the lookup of
                          \* the step that led here, if it was one
    resolver              \* a call of nhclib.datetimeFromAdvisory taken alone:
                          \* its arguments, the clock it reads, its result

vars == <<TrackedCyclones, BlacklistedCyclones, tasks, scanPc,
          blacklistPurge, scanBlacklist, lastLookup, resolver>>

TaskIds == 1..MaxTasks

\* a key a dict does not hold yet
Unset == "unset"
\* a local name that has no value yet
Unbound == "unbound"

(***************************************************************************)
(* Helpers on lists.                                                       *)
(***************************************************************************)
\* x in list
InList(x, list) == \E i \in 1..Len(list) : list[i] = x

\* list.remove(x): drops the first element equal to x
RECURSIVE ListRemove(_, _)
ListRemove(list, x) ==
    IF list = <<>> THEN <<>>
    ELSE IF Head(list) = x THEN Tail(list)
    ELSE <<Head(list)>> \o ListRemove(Tail(list), x)

\* all sequences over S of length at most n
SeqsUpTo(S, n) == UNION {[1..k -> S] : k \in 0..n}

(***************************************************************************)
(* nhclib.updateCyclonesFromBasin                                          *)
(***************************************************************************)
\* A feed is the list of its <nhc:Cyclone> entries that carry atcf, name and
\* type and pass the wallet, advisory URL and graphic checks (nhclib.py
\* 135-178): an entry that fails one of them is skipped with no effect, as
\* if it were not listed.  A feed that cannot be fetched, or lists no
\* cyclone, is the empty feed (nhclib.py 76-87).
FeedEntries == [atcf : Atcfs, name : Names, type : Types]
Feeds == SeqsUpTo(FeedEntries, MaxFeedLen)

\* the dict appended at nhclib.py:181
NewCyclone(e) ==
    [atcf |-> e.atcf, name |-> e.name, task |-> 0,
     nextadvisory |-> Unset, advisorytitle |-> Unset, advisorymsg |-> Unset]

\* variant of AlreadyTracked: the test is left out
AlreadyTrackedMut(cyclones, atcf) == FALSE
\* nhclib.py 99-105: the atcf is already in the list being filled
AlreadyTracked(cyclones, atcf) ==
    \E i \in 1..Len(cyclones) : cyclones[i].atcf = atcf

\* the atcfs in the list
TrackedAtcfs(cyclones) == {cyclones[i].atcf : i \in 1..Len(cyclones)}

\* History of a lookup of the feed, taken before it acts:
\*   matched  the atcfs of the entries that pass the name and strength filters
\*   black    those of them in the shared blacklist and not tracked
\*   dup      those of them already tracked, or listed twice among them
NoLookup == [op |-> "none", matched |-> {}, black |-> {}, dup |-> {}]
Lookup(op, feed, trackTypes, find) ==
    LET pass == {i \in 1..Len(feed) :
                    /\ find = "" \/ feed[i].name = find
                    /\ trackTypes = {} \/ feed[i].type \in trackTypes}
        matched == {feed[i].atcf : i \in pass}
    IN [op |-> op,
        matched |-> matched,
        black |-> {a \in matched : /\ InList(a, BlacklistedCyclones)
                                    /\ a \notin TrackedAtcfs(TrackedCyclones)},
        dup |-> {a \in matched :
                    \/ a \in TrackedAtcfs(TrackedCyclones)
                    \/ \E i, j \in pass : i # j /\ feed[i].atcf = a /\ feed[j].atcf = a}]

\* nhclib.py 89-182, one entry after the other; find = "" is no name filter
RECURSIVE updateCyclonesFromBasin(_, _, _, _, _)
updateCyclonesFromBasin(cyclones, feed, trackTypes, blacklist, find) ==
    IF feed = <<>> THEN cyclones
    ELSE
        LET e == Head(feed)
            reject == \/ AlreadyTracked(cyclones, e.atcf)
                      \/ InList(e.atcf, blacklist)
            skip == \/ reject
                    \/ find # "" /\ find # e.name
                    \/ trackTypes # {} /\ e.type \notin trackTypes
        IN updateCyclonesFromBasin(
               IF skip THEN cyclones ELSE Append(cyclones, NewCyclone(e)),
               Tail(feed), trackTypes, blacklist, find)

(***************************************************************************)
(* nhclib.datetimeFromAdvisory, nhclib.py 213-247.                         *)
(***************************************************************************)
\* the keys of the table of nhclib.py 11-17
NHC_TIMEZONES ==
    {"HI", "AK", "PST", "PDT", "MST", "MDT", "CST", "CDT", "EST", "EDT",
     "AST", "Guam", "CVT"}

\* advisory['time'] is the digits and the word that the pattern of
\* nhclib.py:193 cuts out, "(\d+ \w+)": here the digits, as a sequence, and
\* whether the word is PM (AM otherwise)
TimeLen(time) == Len(time.digits) + 1 + 2

\* nhclib.py 222-224: '0' is put in front of a text shorter than 4 characters
Padded(time) ==
    IF TimeLen(time) < 4 THEN <<0>> \o time.digits ELSE time.digits

\* strptime's %I, "1[0-2]|0[1-9]|[1-9]": the ways to read an hour off the
\* front of the digits, in the order the pattern tries them, each with the
\* digits it leaves
HourReadings(d) ==
    (IF Len(d) >= 2 /\ d[1] = 1 /\ d[2] \in 0..2
     THEN << <<10 + d[2], SubSeq(d, 3, Len(d))>> >> ELSE <<>>)
    \o (IF Len(d) >= 2 /\ d[1] = 0 /\ d[2] \in 1..9
        THEN << <<d[2], SubSeq(d, 3, Len(d))>> >> ELSE <<>>)
    \o (IF Len(d) >= 1 /\ d[1] \in 1..9
        THEN << <<d[1], Tail(d)>> >> ELSE <<>>)

\* strptime's %M, "[0-5]\d|\d", which has to use up the digits that are left
\* (a space follows in the format)
MinuteMatches(rest) ==
    \/ Len(rest) = 2 /\ rest[1] \in 0..5
    \/ Len(rest) = 1
MinuteValue(rest) ==
    IF Len(rest) = 2 THEN 10 * rest[1] + rest[2] ELSE rest[1]

\* strptime's %p applied to the hour of %I
Hour24(hour12, pm) ==
    IF hour12 = 12 THEN (IF pm THEN 12 ELSE 0)
    ELSE (IF pm THEN hour12 + 12 ELSE hour12)

\* nhclib.py:241, strptime with '%I%M %p' on the digits and the word: the
\* first reading of the hour after which the minutes match
ValueError == [kind |-> "ValueError", day |-> 0, hour |-> 0, minute |-> 0]
strptime(d, pm) ==
    LET readings == HourReadings(d)
        fit == {k \in 1..Len(readings) : MinuteMatches(readings[k][2])}
    IN IF fit = {} THEN ValueError
       ELSE LET r == readings[CHOOSE k \in fit : \A j \in fit : k <= j]
            IN [kind |-> "datetime", day |-> 0,
                hour |-> Hour24(r[1], pm), minute |-> MinuteValue(r[2])]

\* The result for a clock that reads now (hour and minute of the current
\* day, in the advisory's timezone): None, the exception of strptime, or a
\* datetime whose day counts from the current day.
NoneResult == [kind |-> "None", day |-> 0, hour |-> 0, minute |-> 0]
datetimeFromAdvisory(now, time, timezone) ==
    IF timezone \notin NHC_TIMEZONES THEN NoneResult
    ELSE LET advisoryTime == strptime(Padded(time), time.pm)
         IN IF advisoryTime = ValueError THEN ValueError
            ELSE IF now.hour > advisoryTime.hour
                 THEN [advisoryTime EXCEPT !.day = 1]
                 ELSE advisoryTime

\* no call of it is looked at
NoCall ==
    [pc |-> "none", now |-> [hour |-> 0, minute |-> 0],
     time |-> [digits |-> <<>>, pm |-> FALSE], timezone |-> "",
     result |-> NoneResult]

(***************************************************************************)
(* Task objects.                                                           *)
(***************************************************************************)
\* pc of a task of nhcUpdateCyclone:
\*   "none"      no such Task object
\*   "created"   create_task was called, the coroutine has not started
\*   "sleeping"  suspended in asyncio.sleep, bot.py:31
\*   "sending"   suspended in channel.send, bot.py:50
\*   "returned"  the coroutine returned (bot.py:35 or :72)
\*   "cancelled" CancelledError left the coroutine
\*   "error"     another exception left the coroutine
Live == {"created", "sleeping", "sending"}

NoTask ==
    [pc |-> "none", ttl |-> 0, nextUpdateSecs |-> 0, ignoreStrength |-> FALSE,
     cancelReq |-> FALSE, fails |-> 0, before |-> 0]

\* bot.loop.create_task(nhcUpdateCyclone(cyclone, ignoreStrength)).  Two
\* fields are history: fails, the failed ticks since the last successful
\* one, and before, the ttl that the successful tick just ended had found
\* (0 when the last tick was not a successful one).
CreatedTask(ignoreStrength) ==
    [pc |-> "created", ttl |-> 0, nextUpdateSecs |-> 0,
     ignoreStrength |-> ignoreStrength, cancelReq |-> FALSE, fails |-> 0,
     before |-> 0]

\* A task that ended: the coroutine's frame, with its locals ttl and
\* nextUpdateSecs, is gone.  The count of failed ticks is kept only by a task
\* that left the loop at its test (bot.py:29).
Ended(r, how) ==
    [r EXCEPT !.pc = how, !.ttl = 0, !.nextUpdateSecs = 0, !.before = 0,
              !.fails = 0]
LeftLoop(r) ==
    [r EXCEPT !.pc = "returned", !.ttl = 0, !.nextUpdateSecs = 0, !.before = 0]

\* Task identities that are free: not running and not held by a tracked dict
Referenced(cyclones) == {cyclones[i].task : i \in 1..Len(cyclones)}
FreeIds(cyclones, tsk) ==
    {t \in TaskIds : tsk[t].pc \notin Live /\ t \notin Referenced(cyclones)}

Min(S) == CHOOSE x \in S : \A y \in S : x <= y

\* index of the dict a task was created for, 0 when it is not in the list
IndexOfTask(cyclones, t) ==
    IF \E i \in 1..Len(cyclones) : cyclones[i].task = t
    THEN CHOOSE i \in 1..Len(cyclones) : cyclones[i].task = t
    ELSE 0

\* TrackedCyclones.remove(cyclone), bot.py:34 and :72
RemoveCyclone(cyclones, t) ==
    LET i == IndexOfTask(cyclones, t)
    IN IF i = 0 THEN cyclones
       ELSE SubSeq(cyclones, 1, i - 1) \o SubSeq(cyclones, i + 1, Len(cyclones))

TypeOK ==
    /\ BlacklistedCyclones \in Seq(Atcfs)
    /\ scanPc \in {"none", "ready", "crashed"}
    /\ blacklistPurge \in Nat
    /\ \A t \in TaskIds : tasks[t].pc \in Live \cup {"none", "returned", "cancelled", "error"}
    /\ resolver.pc \in {"none", "called", "done"}
    /\ resolver.result.kind \in {"None", "ValueError", "datetime"}

Init ==
    /\ TrackedCyclones = <<>>
    /\ BlacklistedCyclones = <<>>
    /\ tasks = [t \in TaskIds |-> NoTask]
    /\ scanPc = "none"
    /\ blacklistPurge = 0
    /\ scanBlacklist = Unbound
    /\ lastLookup = NoLookup
    /\ resolver = NoCall

(***************************************************************************)
(* The "!nhc" command, bot.py 118-172.                                     *)
(***************************************************************************)
\* variant of FindBlacklist: the shared blacklist is passed
FindBlacklistMut == BlacklistedCyclones
\* bot.py:133, the lookup by name is given no blacklist (the default, [])
\* and no strengths
FindBlacklist == <<>>

\* variant of TrackTask: the task is created as the scan creates it
TrackTaskMut == CreatedTask(FALSE)
\* bot.py:142, the task of a cyclone tracked by name
TrackTask == CreatedTask(TRUE)

\* variant of Untasked: the test for the 'task' key is left out
UntaskedMut(cyclones) == 1..Len(cyclones)
\* bot.py:90 and :135, the dicts with no 'task' key
Untasked(cyclones) == {i \in 1..Len(cyclones) : cyclones[i].task = 0}

\* bot.py 137-139: one occurrence of the atcf leaves the blacklist
Unblacklist(blacklist, atcf) ==
    IF InList(atcf, blacklist) THEN ListRemove(blacklist, atcf) ELSE blacklist

\* "!nhc track <name>", bot.py 122-146
nhc_track(cycloneName) ==
    /\ IF \E i \in 1..Len(TrackedCyclones) : TrackedCyclones[i].name = cycloneName
       THEN \* 'already tracked!', bot.py 126-129
            /\ lastLookup' = [NoLookup EXCEPT !.op = "already"]
            /\ UNCHANGED <<TrackedCyclones, BlacklistedCyclones, tasks>>
       ELSE \E feed \in Feeds :
            LET found == updateCyclonesFromBasin(TrackedCyclones, feed, {},
                                                 FindBlacklist, cycloneName)
                untasked == Untasked(found)
            IN /\ lastLookup' = Lookup("track", feed, {}, cycloneName)
               /\ IF untasked = {}
                  THEN \* 'Could not find', bot.py 145-146
                       /\ TrackedCyclones' = found
                       /\ UNCHANGED <<BlacklistedCyclones, tasks>>
                  ELSE LET i == Min(untasked)
                           t == Min(FreeIds(TrackedCyclones, tasks))
                       IN \* bot.py 136-143
                          /\ FreeIds(TrackedCyclones, tasks) # {}
                          /\ TrackedCyclones' = [found EXCEPT ![i].task = t]
                          /\ BlacklistedCyclones' =
                                 Unblacklist(BlacklistedCyclones, found[i].atcf)
                          /\ tasks' = [tasks EXCEPT ![t] = TrackTask]
    /\ UNCHANGED <<scanPc, blacklistPurge, scanBlacklist, resolver>>

\* task.cancel(): asks a task that has not finished to raise CancelledError
\* at its next step
Cancel(tsk, t) ==
    IF t \in TaskIds /\ tsk[t].pc \in Live
    THEN [tsk EXCEPT ![t].cancelReq = TRUE]
    ELSE tsk

\* "!nhc untrack <name>", bot.py 147-160: the first cyclone of that name.  A
\* dict with no 'task' key raises KeyError at bot.py:154, after the append.
nhc_untrack(cycloneName) ==
    /\ Len(BlacklistedCyclones) < MaxBlacklist
    /\ LET hits == {i \in 1..Len(TrackedCyclones) :
                        TrackedCyclones[i].name = cycloneName}
       IN IF hits = {}
          THEN UNCHANGED <<BlacklistedCyclones, tasks>>
          ELSE LET c == TrackedCyclones[Min(hits)]
               IN /\ BlacklistedCyclones' = Append(BlacklistedCyclones, c.atcf)
                  /\ tasks' = Cancel(tasks, c.task)
    /\ lastLookup' = NoLookup
    /\ UNCHANGED <<TrackedCyclones, scanPc, blacklistPurge, scanBlacklist,
                   resolver>>

(***************************************************************************)
(* nhclib.updateCyclone, nhclib.py 254-293.                                *)
(***************************************************************************)
\* What the fetch of the advisory returns:
\*   doc    "fail"       no response (nhclib.py 40-60; a 304 to the
\*                       If-Modified-Since request is one)
\*          "malformed"  a body ET.fromstring rejects (ParseError)
\*          "ok"         a well-formed document
\*   title  "none" (no <title>) or the strength phrase its text contains
\*   titleName  the name "<word> (Intermediate|Public)" gives, "" for no match
\*   desc   "none"     no <item><description>
\*          "noadv"    no "Next ... advisory at" phrase in it
\*          "badtz"    a phrase whose timezone is not in NHC_TIMEZONES
\*          "badtime"  a phrase whose time strptime rejects (ValueError)
\*          "time"     a phrase that resolves to a datetime
Advisories ==
    {[doc |-> "fail", title |-> "none", titleName |-> "", desc |-> "none"],
     [doc |-> "malformed", title |-> "none", titleName |-> "", desc |-> "none"]}
    \cup [doc : {"ok"}, title : {"none"} \cup Types, titleName : Names \cup {""},
          desc : {"none", "noadv", "badtz", "badtime", "time"}]

\* nhclib.py 261-263
ResetAdvisory(cyclone) ==
    [cyclone EXCEPT !.nextadvisory = "None", !.advisorytitle = "",
                    !.advisorymsg = ""]

\* nhclib.py 270-280
WithTitle(cyclone, updateName, adv) ==
    IF adv.title = "none" THEN cyclone
    ELSE [cyclone EXCEPT
              !.name = IF updateName /\ adv.titleName # ""
                       THEN adv.titleName ELSE @,
              !.advisorytitle = adv.title]

\* variant of WithNextAdvisory: the message is not stored with the time
WithNextAdvisoryMut(cyclone, adv) ==
    IF adv.desc = "time" THEN [cyclone EXCEPT !.nextadvisory = "time"]
    ELSE cyclone
\* nhclib.py 283-291, with datetimeFromAdvisory returning None at 216-220
WithNextAdvisory(cyclone, adv) ==
    CASE adv.desc = "time" ->
             [cyclone EXCEPT !.nextadvisory = "time", !.advisorymsg = "msg"]
      [] adv.desc = "badtz" ->
             [cyclone EXCEPT !.nextadvisory = "None", !.advisorymsg = "msg"]
      [] OTHER -> cyclone

\* variant of UpdateRaises: an unknown timezone raises too (a KeyError of the
\* table lookup)
UpdateRaisesMut(adv) ==
    \/ adv.doc = "malformed"
    \/ adv.doc = "ok" /\ adv.desc \in {"badtime", "badtz"}
\* an exception leaves updateCyclone: ET.fromstring at :267, strptime at :241
UpdateRaises(adv) ==
    \/ adv.doc = "malformed"
    \/ adv.doc = "ok" /\ adv.desc = "badtime"

\* the dict as updateCyclone leaves it, also when it raises
updateCyclone(cyclone, updateName, adv) ==
    IF adv.doc # "ok" THEN ResetAdvisory(cyclone)
    ELSE WithNextAdvisory(WithTitle(ResetAdvisory(cyclone), updateName, adv), adv)

(***************************************************************************)
(* nhcUpdateCyclone, bot.py 25-72.                                         *)
(***************************************************************************)
\* the clock differences (nextAdvTime - currentTime) at bot.py:56, seconds
Diffs == {-60, 0, 3600}
\* NotificationSink: the await of bot.py:50 returns or raises
SendResults == {"ok", "error"}

\* bot.py:26
InitialTtl == RetryBudget

\* variant of TtlAfterFailure: the decrement is left out
TtlAfterFailureMut(ttl) == ttl
\* bot.py:62 and :67
TtlAfterFailure(ttl) == ttl - 1

\* variant of TtlAfterSuccess: the budget is not reset
TtlAfterSuccessMut(ttl) == ttl
\* bot.py:59
TtlAfterSuccess(ttl) == RetryBudget

\* bot.py:42, both properties truthy
UpdateSucceeded(cyclone) ==
    /\ cyclone.nextadvisory = "time"
    /\ cyclone.advisorytitle \notin {"", Unset}

\* variant of StillOfInterest: the strength is not looked at
StillOfInterestMut(ignoreStrength, cyclone) == TRUE
\* bot.py:53
StillOfInterest(ignoreStrength, cyclone) ==
    ignoreStrength \/ cyclone.advisorytitle \in CYCLONE_STRENGTHS

\* variant of PositiveInterval: an interval of 0 is let through
PositiveIntervalMut(diff) == diff >= 0
\* bot.py:57
PositiveInterval(diff) == diff > 0

\* a failed tick: bot.py 60-62 and 66-68
FailedTick(r) ==
    [r EXCEPT !.ttl = TtlAfterFailure(@), !.fails = @ + 1]

\* The loop test of bot.py:29 after a tick left the task as r: either the
\* task suspends in the sleep of :31, or the loop ends and :72 removes the
\* cyclone.
LoopOrLeave(t, r, cyclones) ==
    IF r.ttl > 0
    THEN /\ tasks' = [tasks EXCEPT ![t] = [r EXCEPT !.pc = "sleeping"]]
         /\ TrackedCyclones' = cyclones
    ELSE /\ tasks' = [tasks EXCEPT ![t] = LeftLoop(r)]
         /\ TrackedCyclones' = RemoveCyclone(cyclones, t)

\* The first step of the task.  A task cancelled before it started never
\* runs the coroutine's body.
TaskStart(t) ==
    /\ tasks[t].pc = "created"
    /\ IF tasks[t].cancelReq
       THEN /\ tasks' = [tasks EXCEPT ![t] = Ended(@, "cancelled")]
            /\ TrackedCyclones' = TrackedCyclones
       ELSE LoopOrLeave(t, [tasks[t] EXCEPT !.ttl = InitialTtl,
                                            !.nextUpdateSecs = 0],
                        TrackedCyclones)
    /\ lastLookup' = NoLookup
    /\ UNCHANGED <<BlacklistedCyclones, scanPc, blacklistPurge, scanBlacklist,
                   resolver>>

\* variant of CancelledInSleep: the CancelledError is swallowed and the loop
\* goes on
CancelledInSleepMut(r) == FALSE
\* bot.py 30-32: the sleep raises CancelledError when the task was asked to
\* cancel
CancelledInSleep(r) == r.cancelReq

\* bot.py 31-42 and 66-68: the sleep ends, by its timer or by cancellation
TaskWake(t, adv) ==
    /\ tasks[t].pc = "sleeping"
    /\ IndexOfTask(TrackedCyclones, t) # 0
    /\ LET i == IndexOfTask(TrackedCyclones, t)
           updated == updateCyclone(TrackedCyclones[i], tasks[t].ignoreStrength, adv)
           cyclones == [TrackedCyclones EXCEPT ![i] = updated]
           r == [tasks[t] EXCEPT !.nextUpdateSecs = RetrySecs, !.before = 0]
       IN IF CancelledInSleep(tasks[t])
          THEN \* bot.py 32-35
               /\ tasks' = [tasks EXCEPT ![t] = Ended(@, "returned")]
               /\ TrackedCyclones' = RemoveCyclone(TrackedCyclones, t)
          ELSE IF UpdateRaises(adv)
          THEN /\ tasks' = [tasks EXCEPT ![t] = Ended(@, "error")]
               /\ TrackedCyclones' = cyclones
          ELSE IF UpdateSucceeded(updated)
          THEN \* bot.py 44-50
               /\ tasks' = [tasks EXCEPT ![t] = [r EXCEPT !.pc = "sending"]]
               /\ TrackedCyclones' = cyclones
          ELSE LoopOrLeave(t, FailedTick(r), cyclones)
    /\ lastLookup' = NoLookup
    /\ UNCHANGED <<BlacklistedCyclones, scanPc, blacklistPurge, scanBlacklist,
                   resolver>>

\* bot.py 50-65: the send ends, by its result or by cancellation
TaskSent(t, sent, diff) ==
    /\ tasks[t].pc = "sending"
    /\ IndexOfTask(TrackedCyclones, t) # 0
    /\ LET cyclone == TrackedCyclones[IndexOfTask(TrackedCyclones, t)]
           r == tasks[t]
       IN IF r.cancelReq
          THEN /\ tasks' = [tasks EXCEPT ![t] = Ended(@, "cancelled")]
               /\ TrackedCyclones' = TrackedCyclones
          ELSE IF sent = "error"
          THEN /\ tasks' = [tasks EXCEPT ![t] = Ended(@, "error")]
               /\ TrackedCyclones' = TrackedCyclones
          ELSE IF StillOfInterest(r.ignoreStrength, cyclone)
          THEN IF PositiveInterval(diff)
               THEN LoopOrLeave(t, [r EXCEPT !.nextUpdateSecs = diff,
                                             !.ttl = TtlAfterSuccess(@),
                                             !.fails = 0, !.before = r.ttl],
                                TrackedCyclones)
               ELSE LoopOrLeave(t, FailedTick(r), TrackedCyclones)
          ELSE LoopOrLeave(t, [r EXCEPT !.ttl = 0], TrackedCyclones)
    /\ lastLookup' = NoLookup
    /\ UNCHANGED <<BlacklistedCyclones, scanPc, blacklistPurge, scanBlacklist,
                   resolver>>

(***************************************************************************)
(* nhcScanBasin, bot.py 79-95, and on_ready, bot.py 110-116.               *)
(***************************************************************************)
\* bot.py 89-92: a task (ignoreStrength False) for every dict with no 'task'
RECURSIVE StartTasks(_, _)
StartTasks(cyclones, tsk) ==
    LET untasked == Untasked(cyclones)
    IN IF untasked = {} \/ FreeIds(cyclones, tsk) = {}
       THEN <<cyclones, tsk>>
       ELSE LET i == Min(untasked)
                t == Min(FreeIds(cyclones, tsk))
            IN StartTasks([cyclones EXCEPT ![i].task = t],
                          [tsk EXCEPT ![t] = CreatedTask(FALSE)])

\* bot.py:82, the cycle clears the blacklist it names
Purges(purge) == purge > PurgeThreshold

\* bot.py:84, the counter after a cycle: nothing else assigns it after :80
NextPurgeCounter(purge) == purge + 1

\* bot.py 82-83: the assignment binds the function's own BlacklistedCyclones
PurgedBlacklist(purge, local) ==
    IF purge > PurgeThreshold THEN <<>> ELSE local

\* on_ready creates the scan task
on_ready ==
    /\ scanPc = "none"
    /\ scanPc' = "ready"
    /\ lastLookup' = NoLookup
    /\ UNCHANGED <<TrackedCyclones, BlacklistedCyclones, tasks,
                   blacklistPurge, scanBlacklist, resolver>>

\* One cycle of the loop, from the test of :81 to the sleep of :95.  Reading
\* the local BlacklistedCyclones at :88 before any assignment to it raises
\* UnboundLocalError, which ends the task.
nhcScanBasin ==
    /\ scanPc = "ready"
    /\ blacklistPurge < MaxScans
    /\ LET local == PurgedBlacklist(blacklistPurge, scanBlacklist)
       IN /\ scanBlacklist' = local
          /\ blacklistPurge' = NextPurgeCounter(blacklistPurge)
          /\ IF local = Unbound
             THEN /\ scanPc' = "crashed"
                  /\ lastLookup' = NoLookup
                  /\ UNCHANGED <<TrackedCyclones, tasks>>
             ELSE \E feed \in Feeds :
                  LET found == updateCyclonesFromBasin(TrackedCyclones, feed,
                                   CYCLONE_STRENGTHS, local, "")
                      started == StartTasks(found, tasks)
                  IN /\ Cardinality(FreeIds(TrackedCyclones, tasks))
                            >= Len(found) - Len(TrackedCyclones)
                     /\ TrackedCyclones' = started[1]
                     /\ tasks' = started[2]
                     /\ scanPc' = "ready"
                     /\ lastLookup' = Lookup("scan", feed, CYCLONE_STRENGTHS, "")
    /\ UNCHANGED <<BlacklistedCyclones, resolver>>

(***************************************************************************)
(* The specification.                                                      *)
(***************************************************************************)
Next ==
    \/ on_ready
    \/ nhcScanBasin
    \/ \E name \in Names : nhc_track(name)
    \/ \E name \in Names : nhc_untrack(name)
    \/ \E t \in TaskIds : TaskStart(t)
    \/ \E t \in TaskIds, adv \in Advisories : TaskWake(t, adv)
    \/ \E t \in TaskIds, sent \in SendResults, diff \in Diffs : TaskSent(t, sent, diff)

Spec == Init /\ [][Next]_vars

\* The event loop runs every task that is ready, timers fire, and the
\* gateway delivers on_ready; commands arrive or not.
Fairness ==
    /\ WF_vars(on_ready)
    /\ WF_vars(nhcScanBasin)
    /\ \A t \in TaskIds :
           /\ WF_vars(TaskStart(t))
           /\ WF_vars(\E adv \in Advisories : TaskWake(t, adv))
           /\ WF_vars(\E sent \in SendResults, diff \in Diffs : TaskSent(t, sent, diff))

FairSpec == Spec /\ Fairness

\* nhcUpdateCyclone taken alone, under either value of its parameter
\* ignoreStrength: the bot as SchedulerInit finds it has one cyclone, just
\* admitted from the feed, and the task just created for it.  (In the bot
\* the value False is passed by bot.py:92 only.)
SchedulerInit ==
    /\ \E e \in FeedEntries, ignoreStrength \in BOOLEAN :
           /\ TrackedCyclones = <<[NewCyclone(e) EXCEPT !.task = 1]>>
           /\ tasks = [t \in TaskIds |->
                          IF t = 1 THEN CreatedTask(ignoreStrength) ELSE NoTask]
    /\ BlacklistedCyclones = <<>>
    /\ scanPc = "none"
    /\ blacklistPurge = 0
    /\ scanBlacklist = Unbound
    /\ lastLookup = NoLookup
    /\ resolver = NoCall

SchedulerSpec == SchedulerInit /\ [][Next]_vars

\* nhclib.datetimeFromAdvisory taken alone: the clock times an advisory may
\* state, written as the NHC writes them ("500 PM", "1100 PM") or with the
\* hour on two digits ("0500 PM"), a timezone, and the clock at the call.
ClockHours == 1..12
ClockMinutes == {0, 5, 30}
Written(hour12, minute, twoDigits) ==
    (IF hour12 >= 10 THEN <<hour12 \div 10, hour12 % 10>>
     ELSE IF twoDigits THEN <<0, hour12>> ELSE <<hour12>>)
    \o <<minute \div 10, minute % 10>>
AdvisoryTimes ==
    {[digits |-> Written(h, m, z), pm |-> pm] :
        h \in ClockHours, m \in ClockMinutes, z \in BOOLEAN, pm \in BOOLEAN}
AdvisoryTimezones == {"EDT", "XYZ"}
Clocks == [hour : 0..23, minute : ClockMinutes]

ResolverInit ==
    /\ TrackedCyclones = <<>>
    /\ BlacklistedCyclones = <<>>
    /\ tasks = [t \in TaskIds |-> NoTask]
    /\ scanPc = "none"
    /\ blacklistPurge = 0
    /\ scanBlacklist = Unbound
    /\ lastLookup = NoLookup
    /\ \E now \in Clocks, time \in AdvisoryTimes, timezone \in AdvisoryTimezones :
           resolver = [pc |-> "called", now |-> now, time |-> time,
                       timezone |-> timezone, result |-> NoneResult]

\* the call returns, or raises
Resolve ==
    /\ resolver.pc = "called"
    /\ resolver' =
           [resolver EXCEPT
               !.pc = "done",
               !.result = datetimeFromAdvisory(resolver.now, resolver.time,
                                               resolver.timezone)]
    /\ UNCHANGED <<TrackedCyclones, BlacklistedCyclones, tasks, scanPc,
                   blacklistPurge, scanBlacklist, lastLookup>>

ResolverSpec == ResolverInit /\ [][Resolve]_vars

(***************************************************************************)
(* The claims.                                                             *)
(***************************************************************************)
\* the tasks in the loop of nhcUpdateCyclone
InLoop == {"sleeping", "sending"}

\* C1: a scheduler never counts more than 10 consecutive failed ticks; at the
\* 10th it has returned and its cyclone is out of the tracked set; while it
\* is in its loop its budget is 10 less the consecutive failed ticks and its
\* cyclone is tracked; one that left the loop after fewer than 10 was
\* cancelled or not in ignore-strength mode (disqualified).
C1_RetryExhaustion ==
    \A t \in TaskIds :
        LET r == tasks[t]
        IN /\ r.fails <= RetryBudget
           /\ r.fails = RetryBudget =>
                  r.pc = "returned" /\ IndexOfTask(TrackedCyclones, t) = 0
           /\ r.pc \in InLoop =>
                  /\ r.ttl = RetryBudget - r.fails
                  /\ r.fails < RetryBudget
                  /\ IndexOfTask(TrackedCyclones, t) # 0
           /\ r.pc = "returned" /\ r.fails < RetryBudget =>
                  r.cancelReq \/ ~r.ignoreStrength

\* a scheduler returned at its 10th consecutive failed tick
C1_Witness ==
    \E t \in TaskIds : tasks[t].pc = "returned" /\ tasks[t].fails = RetryBudget

\* C2: a scheduler whose last tick was a successful one (title and next
\* advisory extracted, sent, strength qualifying, positive interval) has its
\* budget at 10 and no failed tick counted, whatever the budget was before.
C2_SuccessResetsBudget ==
    \A t \in TaskIds :
        tasks[t].before # 0 =>
            /\ tasks[t].pc = "sleeping"
            /\ tasks[t].ttl = RetryBudget
            /\ tasks[t].fails = 0

\* a successful tick that found the budget at 1, after 9 failed ticks
C2_Witness ==
    \E t \in TaskIds : tasks[t].before = 1 /\ tasks[t].ttl = RetryBudget

\* C3: a cyclone is tracked iff it has a scheduler task that is running, and
\* it has exactly one.
C3_TrackedIffLiveScheduler ==
    /\ \A i \in 1..Len(TrackedCyclones) :
           /\ TrackedCyclones[i].task \in TaskIds
           /\ tasks[TrackedCyclones[i].task].pc \in Live
    /\ \A t \in TaskIds :
           tasks[t].pc \in Live =>
               Cardinality({i \in 1..Len(TrackedCyclones) :
                                TrackedCyclones[i].task = t}) = 1

\* C4: no atcf is in the tracked set and in the blacklist at the same time.
C4_NeverTrackedAndBlacklisted ==
    \A a \in Atcfs :
        ~(a \in TrackedAtcfs(TrackedCyclones) /\ InList(a, BlacklistedCyclones))

\* C5: once a scheduler that untrack cancelled has ended, its cyclone is out
\* of the tracked set, wherever the cancellation met it.
C5_CancelledIsRemoved ==
    \A t \in TaskIds :
        tasks[t].cancelReq /\ tasks[t].pc \notin Live =>
            IndexOfTask(TrackedCyclones, t) = 0

\* C6: no error of a tick ends the scheduler of a cyclone that stays tracked:
\* the tick is counted against the budget and retried.
C6_TickErrorsAreRetried ==
    \A i \in 1..Len(TrackedCyclones) :
        TrackedCyclones[i].task \in TaskIds =>
            tasks[TrackedCyclones[i].task].pc # "error"

\* C7: the scan task, once started, never stops on its own.
C7_ScanNeverStops == scanPc # "crashed"

\* C8: the shared blacklist is cleared again and again, every time the scan
\* counter has exceeded the threshold, so that no atcf stays blacklisted.
C8_BlacklistPurged == []<>(BlacklistedCyclones = <<>>)

\* C9 as stated: a lookup by name admits no entry whose atcf is blacklisted.
C9_LookupAppliesBlacklist ==
    lastLookup.op = "track" =>
        lastLookup.black \cap TrackedAtcfs(TrackedCyclones) = {}

\* C9 as amended: after a lookup by name every feed entry of that name is
\* tracked, whatever its strength and whether or not its atcf is in the
\* blacklist (only an atcf already tracked is not added again).
C9_LookupIgnoresBlacklist ==
    lastLookup.op = "track" =>
        lastLookup.matched \subseteq TrackedAtcfs(TrackedCyclones)

\* a lookup by name was offered an entry whose atcf was blacklisted
C9_Witness ==
    /\ lastLookup.op = "track"
    /\ lastLookup.black # {}

\* C10: no two dicts of the tracked set have the same atcf.
C10_AtcfUnique ==
    \A i, j \in 1..Len(TrackedCyclones) :
        i # j => TrackedCyclones[i].atcf # TrackedCyclones[j].atcf

\* a lookup was offered an atcf that was tracked already or listed twice
C10_Witness ==
    /\ lastLookup.op = "track"
    /\ lastLookup.dup # {}
    /\ Len(TrackedCyclones) > 0

\* a dict that updateCyclone has gone through
Updated(cyclone) == cyclone.nextadvisory # Unset
\* the three advisory properties of a dict, present (truthy) or absent
HasNextAdvisory(cyclone) == cyclone.nextadvisory = "time"
HasTitle(cyclone) == cyclone.advisorytitle \notin {"", Unset}
HasMessage(cyclone) == cyclone.advisorymsg \notin {"", Unset}

\* C11 as stated: after an update the next advisory, the title and the
\* message of a cyclone are all three present or all three absent.
C11_AllOrNothing ==
    \A i \in 1..Len(TrackedCyclones) :
        LET c == TrackedCyclones[i]
        IN Updated(c) =>
               \/ HasNextAdvisory(c) /\ HasTitle(c) /\ HasMessage(c)
               \/ ~HasNextAdvisory(c) /\ ~HasTitle(c) /\ ~HasMessage(c)

\* C11 as amended: after an update a next advisory that is present comes
\* with its message, so that an update that succeeded (next advisory and
\* title present) has all three; a failed update may leave the title, or the
\* message, or the next advisory with its message, present.
C11_NextAdvisoryHasMessage ==
    \A i \in 1..Len(TrackedCyclones) :
        LET c == TrackedCyclones[i]
        IN Updated(c) =>
               /\ HasNextAdvisory(c) => HasMessage(c)
               /\ UpdateSucceeded(c) =>
                      HasNextAdvisory(c) /\ HasTitle(c) /\ HasMessage(c)

\* an update found the next advisory and its message and no title
C11_Witness ==
    \E i \in 1..Len(TrackedCyclones) :
        LET c == TrackedCyclones[i]
        IN HasNextAdvisory(c) /\ HasMessage(c) /\ ~HasTitle(c)

\* the dict a task was created for
CycloneOf(t) == TrackedCyclones[IndexOfTask(TrackedCyclones, t)]

\* C13: a tick that extracted title and next advisory, sent them and found
\* the interval not positive (the task goes from the send back to the loop
\* and the tick is not a successful one) takes one from the budget and waits
\* the fixed 60 s; and no wait after a tick is 0 or less.
C13_NegativeIntervalGuard ==
    [][\A t \in TaskIds :
          /\ ( /\ tasks[t].pc = "sending"
               /\ tasks'[t].pc = "sleeping"
               /\ tasks'[t].before = 0 )
             => /\ tasks'[t].ttl = tasks[t].ttl - 1
                /\ tasks'[t].fails = tasks[t].fails + 1
                /\ tasks'[t].nextUpdateSecs = RetrySecs
          /\ ( /\ tasks'[t].pc = "sleeping"
               /\ tasks'[t].fails > 0 \/ tasks'[t].before # 0 )
             => tasks'[t].nextUpdateSecs > 0
      ]_vars

\* a scheduler back in its sleep after a tick that extracted both fields and
\* was counted as failed
C13_Witness ==
    \E t \in TaskIds :
        /\ tasks[t].pc = "sleeping"
        /\ tasks[t].fails > 0
        /\ IndexOfTask(TrackedCyclones, t) # 0
        /\ UpdateSucceeded(CycloneOf(t))
        /\ tasks[t].nextUpdateSecs = RetrySecs

\* C12: a scheduler not started in ignore-strength mode whose tick extracted
\* both fields and sent them, with a title that has none of the tracked
\* strengths, returns at that tick and its cyclone leaves the tracked set,
\* whatever its budget; such a scheduler never goes back to its sleep with
\* such a title after a tick that was sent.
C12_StrengthDisqualification ==
    [][\A t \in TaskIds :
          ( /\ tasks[t].pc = "sending"
            /\ ~tasks[t].ignoreStrength
            /\ ~tasks[t].cancelReq
            /\ IndexOfTask(TrackedCyclones, t) # 0
            /\ CycloneOf(t).advisorytitle \notin CYCLONE_STRENGTHS
            /\ tasks'[t].pc \notin {"sending", "error"} )
          => /\ tasks'[t].pc = "returned"
             /\ IndexOfTask(TrackedCyclones', t) = 0
      ]_vars

\* a scheduler not in ignore-strength mode returned, not cancelled, with
\* budget left after some failed ticks
C12_Witness ==
    \E t \in TaskIds :
        /\ tasks[t].pc = "returned"
        /\ ~tasks[t].ignoreStrength
        /\ ~tasks[t].cancelReq
        /\ tasks[t].fails > 0
        /\ tasks[t].fails < RetryBudget
        /\ IndexOfTask(TrackedCyclones, t) = 0

\* C14: a scheduler that was asked to cancel while suspended takes one more
\* step only, which ends it, returned or cancelled: that step fetches no
\* advisory (the dicts stay as they are, but for the removal of its own) and
\* hands no notification to the channel (it does not enter the send).
C14_CancelEndsWithoutFetch ==
    [][\A t \in TaskIds :
          ( /\ tasks[t].cancelReq
            /\ tasks[t].pc \in Live
            /\ tasks'[t] # tasks[t] )
          => /\ tasks'[t].pc \in {"returned", "cancelled"}
             /\ tasks'[t].fails = 0
             /\ TrackedCyclones' \in
                    {TrackedCyclones, RemoveCyclone(TrackedCyclones, t)}
      ]_vars

\* a scheduler cancelled in its sleep has returned and its cyclone is out
C14_Witness ==
    \E t \in TaskIds :
        /\ tasks[t].cancelReq
        /\ tasks[t].pc = "returned"
        /\ IndexOfTask(TrackedCyclones, t) = 0

\* the atcfs of the dicts whose task has not finished
LiveAtcfs ==
    {TrackedCyclones[i].atcf :
        i \in {j \in 1..Len(TrackedCyclones) :
                  /\ TrackedCyclones[j].task \in TaskIds
                  /\ tasks[TrackedCyclones[j].task].pc \in Live}}

\* the atcf of the dict for which "!nhc track <name>" creates a task when
\* the feed is as given (bot.py 126-143), as a set: empty when it creates none
TrackWouldStart(cycloneName, feed) ==
    IF \E i \in 1..Len(TrackedCyclones) : TrackedCyclones[i].name = cycloneName
    THEN {}
    ELSE LET found == updateCyclonesFromBasin(TrackedCyclones, feed, {},
                                              FindBlacklist, cycloneName)
         IN IF Untasked(found) = {} THEN {}
            ELSE {found[Min(Untasked(found))].atcf}

C16_TrackedByNameIgnoresStrength ==
    [][\A t \in TaskIds :
          /\ ( lastLookup'.op = "track" /\ tasks'[t] # tasks[t] )
             => /\ tasks'[t].pc = "created"
                /\ tasks'[t].ignoreStrength
                /\ lastLookup'.matched \subseteq TrackedAtcfs(TrackedCyclones')
          /\ ( /\ tasks[t].ignoreStrength
               /\ tasks[t].pc \in InLoop
               /\ tasks'[t].pc = "returned" )
             => /\ tasks[t].cancelReq \/ tasks'[t].fails = RetryBudget
                /\ IndexOfTask(TrackedCyclones', t) = 0
      ]_vars

\* the scheduler of a cyclone tracked by name went on after a tick that was
\* sent with a title below the tracked strengths
C16_Witness ==
    \E t \in TaskIds :
        /\ tasks[t].ignoreStrength
        /\ tasks[t].pc = "sleeping"
        /\ tasks[t].before # 0
        /\ IndexOfTask(TrackedCyclones, t) # 0
        /\ CycloneOf(t).advisorytitle = "tropical depression"

\* what updateCyclone leaves of an advisory whose timezone is not in
\* NHC_TIMEZONES: the message, and None for the next advisory
UnknownTimezone(cyclone) ==
    cyclone.nextadvisory = "None" /\ cyclone.advisorymsg = "msg"

\* C17: the tick of a scheduler that met an advisory with an unknown
\* timezone leaves the next advisory None (no time, no exception) and is a
\* failed tick: the scheduler is back in its sleep, not in the send, with one
\* taken from its budget and the fixed 60 s to wait.
C17_UnknownTimezoneIsFailedTick ==
    [][\A t \in TaskIds :
          ( /\ tasks[t].pc = "sleeping"
            /\ tasks'[t] # tasks[t]
            /\ ~tasks'[t].cancelReq
            /\ IndexOfTask(TrackedCyclones', t) # 0
            /\ UnknownTimezone(TrackedCyclones'[IndexOfTask(TrackedCyclones', t)]) )
          => /\ tasks'[t].pc = "sleeping"
             /\ tasks'[t].ttl = tasks[t].ttl - 1
             /\ tasks'[t].fails = tasks[t].fails + 1
             /\ tasks'[t].nextUpdateSecs = RetrySecs
      ]_vars

\* a scheduler back in its sleep after a tick that met an unknown timezone
C17_Witness ==
    \E t \in TaskIds :
        /\ tasks[t].pc = "sleeping"
        /\ tasks[t].fails > 0
        /\ IndexOfTask(TrackedCyclones, t) # 0
        /\ UnknownTimezone(CycloneOf(t))
        /\ HasTitle(CycloneOf(t))

\* the clock time a text states: its last two digits are the minutes, the
\* digits before them the hour
StatedClock(time) ==
    LET d == time.digits
        n == Len(d)
        hour12 == IF n = 4 THEN 10 * d[1] + d[2] ELSE d[1]
    IN [hour |-> Hour24(hour12, time.pm), minute |-> 10 * d[n - 1] + d[n]]

\* C18: for a timezone of the table the result is a datetime with the clock
\* time the text states, on the day after the current one when the stated
\* hour is less than the current hour and on the current day otherwise.
C18_DayRollover ==
    ( resolver.pc = "done" /\ resolver.timezone \in NHC_TIMEZONES )
    => LET stated == StatedClock(resolver.time)
           r == resolver.result
       IN /\ r.kind = "datetime"
          /\ r.hour = stated.hour
          /\ r.minute = stated.minute
          /\ r.day = IF stated.hour < resolver.now.hour THEN 1 ELSE 0

\* minutes from the clock at the call to the result (bot.py:56)
Interval(now, r) ==
    (r.day * 1440 + r.hour * 60 + r.minute) - (now.hour * 60 + now.minute)

\* the next instant, strictly after the clock at the call and at most 24
\* hours after it, at which a clock shows the stated time
TrueNext(now, stated) ==
    [kind |-> "datetime",
     day |-> IF stated.hour * 60 + stated.minute > now.hour * 60 + now.minute
             THEN 0 ELSE 1,
     hour |-> stated.hour, minute |-> stated.minute]

\* the result has the clock time the text states (see C18 for the texts of
\* which it has not)
ClockAsStated ==
    /\ resolver.result.kind = "datetime"
    /\ resolver.result.hour = StatedClock(resolver.time).hour
    /\ resolver.result.minute = StatedClock(resolver.time).minute

\* C20: for a timezone of the table the result is the next instant, within
\* 24 hours after the call, at which the stated clock time comes, and so it
\* is after the call.  Stated for the results that have the stated clock
\* time, where only the day is in question.
C20_ExactWithin24h ==
    ( /\ resolver.pc = "done"
      /\ resolver.timezone \in NHC_TIMEZONES
      /\ ClockAsStated )
    => /\ resolver.result = TrueNext(resolver.now, StatedClock(resolver.time))
       /\ Interval(resolver.now, resolver.result) > 0

====
